---------------------------- MODULE Spec2Model ----------------------------
(***************************************************************************)
(* Gold price history: the backfill reconciler (scripts/build_history.py)  *)
(* and the incremental upsert (scripts/update_price.py) over the persisted *)
(* history.json.                                                           *)
(*                                                                         *)
(* Dates are the "%Y-%m-%d" strings of the code, held as <<y, m, d>>; the  *)
(* string order of zero-padded ISO dates is the lexicographic order of the *)
(* triple.  Python floats are idealised as exact rationals <<n, d>>, d > 0;*)
(* None is the empty tuple.  Stored (rounded) fields are integers counting *)
(* hundredths.                                                             *)
(***************************************************************************)
EXTENDS Integers, Sequences, FiniteSets, TLC

\* ------------------------------------------------------------------ bounds
\* length in days of the calendar window the backfill series are drawn from
NDays == 9
\* most anchor (local price) dates in one backfill
MaxAnchors == 2
\* most entries in a sparse international or FX series
MaxEntries == 2
\* number of consecutive wall-clock days on which the incremental job runs
NNow == 1
\* most save_history calls in a run of the concurrent specification
MaxSaves == 2

\* rows of a batch source, over all its files
MaxRows == 3

\* ------------------------------------------------------------------- dates
None == <<>>

IsLeap(y) == (y % 4 = 0 /\ y % 100 # 0) \/ y % 400 = 0

DaysInMonth(y, m) ==
    IF m = 2 THEN (IF IsLeap(y) THEN 29 ELSE 28)
    ELSE IF m \in {4, 6, 9, 11} THEN 30 ELSE 31

\* the calendar day before `date`
PrevDay(date) ==
    IF date[3] > 1 THEN <<date[1], date[2], date[3] - 1>>
    ELSE IF date[2] > 1
    THEN <<date[1], date[2] - 1, DaysInMonth(date[1], date[2] - 1)>>
    ELSE <<date[1] - 1, 12, 31>>

\* the calendar day after `date`
NextDay(date) ==
    IF date[3] < DaysInMonth(date[1], date[2]) THEN <<date[1], date[2], date[3] + 1>>
    ELSE IF date[2] < 12 THEN <<date[1], date[2] + 1, 1>>
    ELSE <<date[1] + 1, 1, 1>>

\* (datetime.strptime(date, "%Y-%m-%d") - timedelta(days=i)).strftime("%Y-%m-%d")
RECURSIVE MinusDays(_, _)
MinusDays(date, i) == IF i = 0 THEN date ELSE MinusDays(PrevDay(date), i - 1)

\* the n consecutive days from `date` on
RECURSIVE DaysFrom(_, _)
DaysFrom(date, n) == IF n = 0 THEN {} ELSE {date} \cup DaysFrom(NextDay(date), n - 1)

\* str < str on "%Y-%m-%d" strings
DateLt(a, b) ==
    \/ a[1] < b[1]
    \/ a[1] = b[1] /\ a[2] < b[2]
    \/ a[1] = b[1] /\ a[2] = b[2] /\ a[3] < b[3]

DateLe(a, b) == a = b \/ DateLt(a, b)

MinDate(S) == CHOOSE d \in S : \A e \in S : DateLe(d, e)

MaxDate(S) == CHOOSE d \in S : \A e \in S : DateLe(e, d)

\* date + timedelta(days=365): the same day of the next year, or the day
\* before it when a 29 February lies in between
PlusChunk(date) ==
    LET y == date[1]
        leapBetween == IF date[2] < 3 THEN IsLeap(y) ELSE IsLeap(y + 1)
        sameDay == IF date[2] = 2 /\ date[3] = 29 THEN <<y + 1, 3, 1>>
                   ELSE <<y + 1, date[2], date[3]>>
    IN  IF leapBetween THEN PrevDay(sameDay) ELSE sameDay

\* sorted(dates): the ascending list of a set of date strings
RECURSIVE SortedDates(_)
SortedDates(S) ==
    IF S = {} THEN <<>>
    ELSE LET m == MinDate(S) IN <<m>> \o SortedDates(S \ {m})

\* --------------------------------------------------------------- rationals
Abs(x) == IF x < 0 THEN -x ELSE x

RECURSIVE GCD(_, _)
GCD(a, b) == IF b = 0 THEN a ELSE GCD(b, a % b)

Rat(n, d) ==
    LET g == GCD(Abs(n), Abs(d))
        s == IF d < 0 THEN -1 ELSE 1
    IN  <<s * (n \div g), s * (d \div g)>>

\* Python truthiness of a float-or-None: None and 0.0 are falsy
Truthy(x) == x # None /\ x[1] # 0

RatMul(a, b) ==
    LET g1 == GCD(Abs(a[1]), b[2])
        g2 == GCD(Abs(b[1]), a[2])
    IN  Rat((a[1] \div g1) * (b[1] \div g2), (a[2] \div g2) * (b[2] \div g1))

\* a / b, b # 0
RatDiv(a, b) ==
    RatMul(a, IF b[1] < 0 THEN <<-b[2], -b[1]>> ELSE <<b[2], b[1]>>)

RatSub(a, b) ==
    LET g == GCD(a[2], b[2])
    IN  Rat(a[1] * (b[2] \div g) - b[1] * (a[2] \div g), (a[2] \div g) * b[2])

\* round(x, 2) as a count of hundredths: nearest, ties to the even neighbour.
\* \div and % floor, so q, r are the floor and the remainder for negative x too.
Round2(x) ==
    LET n == 100 * (x[1] % x[2])
        q == 100 * (x[1] \div x[2]) + (n \div x[2])
        r == n % x[2]
    IN  IF 2 * r < x[2] THEN q
        ELSE IF 2 * r > x[2] THEN q + 1
        ELSE IF q % 2 = 0 THEN q ELSE q + 1


\* ------------------------------------------- incremental path: update_price.py
VARIABLES
    file,       \* history.json: <<>> while the file does not exist, else <<history>>
    lastOp,     \* what the last completed run did (observation only)
    pc,         \* per concurrent invocation of update_price.main: its position
    target_date,\* per invocation: main's target_date
    new_entry,  \* per invocation: main's new_entry
    history,    \* per invocation: main's in-memory history (from load_history)
    saves,      \* number of save_history calls so far (observation only)
    loadedAt,   \* per invocation: value of saves when it ran load_history
    savedAt,    \* per invocation: value of saves just after its save_history
    korean_prices,  \* build_history.main: the dict load_krx_csv returned
    lbma_items,     \* the LBMA feed's items, date -> values[0] (input)
    intl_prices,    \* build_history.main: the dict fetch_lbma_data returned
    exchange_rates, \* build_history.main: the FX dict, filled in place
    fetched_rates,  \* the FX dict as fetch_exchange_rates returned it (observation only)
    history_data,   \* build_history.main: the list build_history returned
    batch_files,    \* the files of a batch source: file name -> its rows (input)
    sorted_data,    \* parse_woori_pdf.main: the list it saves
    upserted,       \* the records upserted since the empty history, by date, while
                    \* only incremental runs have written (observation only)
    fx_start_date,  \* fetch_exchange_rates: its start_date
    fx_end_date,    \* fetch_exchange_rates: its end_date (final_end)
    fx_current_start, \* fetch_exchange_rates: current_start, the next chunk's start
    requested,      \* the chunks <<start_str, end_str>> requested so far
    fetch_pc        \* fetch_exchange_rates: "idle", "loop" or "done"

vars == <<file, lastOp, pc, target_date, new_entry, history, saves, loadedAt,
          savedAt, korean_prices, lbma_items, intl_prices, exchange_rates,
          fetched_rates, history_data, batch_files, sorted_data, upserted,
          fx_start_date, fx_end_date, fx_current_start, requested, fetch_pc>>

fetchVars == <<fx_start_date, fx_end_date, fx_current_start, requested, fetch_pc>>

batchVars == <<batch_files, sorted_data>>

\* grams per troy ounce, the literal 31.1035
TroyOunce == Rat(311035, 10000)
\* the literal 1.03 of the estimated Korean price
Markup == Rat(103, 100)
Zero == <<0, 1>>
Hundred == <<100, 1>>

\* KST wall-clock dates at which a run may start; the day before the first
\* is a leap day in another month
FirstNow == <<2024, 3, 1>>
NowDates == DaysFrom(FirstNow, NNow)
Modes == {"realtime", "daily"}

\* what get_korean_gold_price / get_korean_gold_price_krx_direct can return:
\* None (no key, no items, an exception), 0.0 (the .get default) or a price
KoreanResults == {None, Zero, Rat(11, 8)}
\* get_international_gold_price: None on an exception, data.get("price", 0)
InternationalResults == {None, Zero, Rat(249, 8)}
\* get_exchange_rate: None (no key, no USD item, an exception), else the
\* float of the item's deal_bas_r
ExchangeResults == {None, Rat(9, 8)}

EmptyHistory == [lastUpdated |-> None, data |-> <<>>]

load_history(f) == IF f = <<>> THEN EmptyHistory ELSE f[1]

save_history(h) == <<h>>

TargetDate(now, mode) == IF mode = "realtime" THEN now ELSE MinusDays(now, 1)

\* line 172: (international_price / 31.1035) * exchange_rate
ConvertKrw(international_price, exchange_rate) ==
    RatMul(RatDiv(international_price, TroyOunce), exchange_rate)

\* lines 167-168: the Korean price main goes on with
KoreanOrEstimate(korean_price, international_price, exchange_rate) ==
    IF korean_price = None \/ korean_price[1] = 0
    THEN RatMul(ConvertKrw(international_price, exchange_rate), Markup)
    ELSE korean_price

\* line 175
Premium(korean_price, international_price_krw) ==
    IF international_price_krw[1] > 0
    THEN RatMul(RatDiv(RatSub(korean_price, international_price_krw),
                       international_price_krw), Hundred)
    ELSE Zero

\* lines 166-185
NewEntry(date, korean_price, international_price, exchange_rate) ==
    LET kp  == KoreanOrEstimate(korean_price, international_price, exchange_rate)
        krw == ConvertKrw(international_price, exchange_rate)
    IN  [date                  |-> date,
         koreanPrice           |-> Round2(kp),
         internationalPrice    |-> Round2(international_price),
         internationalPriceKrw |-> Round2(krw),
         exchangeRate          |-> Round2(exchange_rate),
         premium               |-> Round2(Premium(kp, krw))]

Dates(data) == {data[i].date : i \in 1 .. Len(data)}

\* line 193: the first index holding the date, 0 for None
ExistingIndex(data, date) ==
    IF date \in Dates(data)
    THEN CHOOSE i \in 1 .. Len(data) :
            data[i].date = date /\ \A j \in 1 .. i - 1 : data[j].date # date
    ELSE 0

\* a history left in the order of arrival
Unsorted(data) == data

\* list.sort(key=date) is stable: insert each record after the records whose
\* date is not greater
RECURSIVE InsertByDate(_, _)
InsertByDate(sorted, rec) ==
    IF sorted = <<>> THEN <<rec>>
    ELSE IF DateLt(rec.date, Head(sorted).date) THEN <<rec>> \o sorted
    ELSE <<Head(sorted)>> \o InsertByDate(Tail(sorted), rec)

RECURSIVE SortByDate(_)
SortByDate(data) ==
    IF data = <<>> THEN <<>>
    ELSE InsertByDate(SortByDate(SubSeq(data, 1, Len(data) - 1)), data[Len(data)])

\* an upsert that appends whatever the history holds
PutAppend(data, entry) == Append(data, entry)

\* an upsert that keeps the record a date already has (first-write-wins)
PutKeepFirst(data, entry) ==
    IF entry.date \in Dates(data) THEN data ELSE Append(data, entry)

\* an upsert that starts the history over
PutAlone(data, entry) == <<entry>>

\* lines 193-199: replace the record of the date, or append
Put(data, entry) ==
    LET i == ExistingIndex(data, entry.date)
    IN  IF i # 0 THEN [data EXCEPT ![i] = entry] ELSE Append(data, entry)

\* an upsert that stamps the history with the latest date it holds
UpsertStampLatest(h, entry) ==
    LET data == SortByDate(Put(h.data, entry))
    IN  [lastUpdated |-> data[Len(data)].date, data |-> data]

\* lines 192-205 on the loaded history
Upsert(h, entry) ==
    [lastUpdated |-> entry.date, data |-> SortByDate(Put(h.data, entry))]

\* line 162
MissingRequired(international_price, exchange_rate) ==
    international_price = None \/ exchange_rate = None

\* a save that upserts into the file as it is at the time of writing
WrittenMerged(f, h, entry) == save_history(Upsert(load_history(f), entry))

\* lines 192-208: what the run leaves in the file `f`, having loaded `h`:
\* open(..., "w") truncates, so nothing of `f` survives
Written(f, h, entry) == save_history(Upsert(h, entry))

\* a run that writes the history back when it gives up
MainFileRewrite(f, date, korean_price, international_price, exchange_rate) ==
    IF MissingRequired(international_price, exchange_rate)
    THEN save_history(load_history(f))
    ELSE save_history(Upsert(load_history(f),
            NewEntry(date, korean_price, international_price, exchange_rate)))

\* update_price.main as one uninterrupted run: the file it leaves
MainFile(f, date, korean_price, international_price, exchange_rate) ==
    IF MissingRequired(international_price, exchange_rate) THEN f
    ELSE Written(f, load_history(f),
                 NewEntry(date, korean_price, international_price, exchange_rate))


\* ---------------------------------------------- backfill path: build_history.py
\* range(1, 8): the look-back of build_history reaches 7 days
LookBackDays == 7

\* the "2020-01-01" cut-off of fetch_lbma_data
LbmaFrom == <<2020, 1, 1>>

Get(series, date) == IF date \in DOMAIN series THEN series[date] ELSE None

\* fetch_lbma_data on the feed's items (date -> values[0]): keeps the items
\* from 2020 on whose first value is truthy
fetch_lbma_data(items) ==
    LET keep == {d \in DOMAIN items : DateLe(LbmaFrom, d) /\ Truthy(items[d])}
    IN  [d \in keep |-> items[d]]

\* the answer of the FX service to one request: its rates of the dates from
\* start_str to end_str
Request(service, start_str, end_str) ==
    LET asked == {d \in DOMAIN service : DateLe(start_str, d) /\ DateLe(d, end_str)}
    IN  [d \in asked |-> service[d]]

\* the chunking loop of fetch_exchange_rates: while current_start < final_end
RECURSIVE FetchChunks(_, _, _, _)
FetchChunks(service, current_start, final_end, rates) ==
    IF ~DateLt(current_start, final_end) THEN rates
    ELSE LET plus == PlusChunk(current_start)
             current_end == IF DateLt(final_end, plus) THEN final_end ELSE plus
         IN  FetchChunks(service, NextDay(current_end), final_end,
                         Request(service, current_start, current_end) @@ rates)

fetch_exchange_rates(service, start_date, end_date) ==
    FetchChunks(service, start_date, end_date, <<>>)

\* main, lines 169-175: the rates over the range of the CSV's dates
MainRates(korean, service) ==
    IF DOMAIN korean = {} THEN <<>>
    ELSE fetch_exchange_rates(service, MinDate(DOMAIN korean), MaxDate(DOMAIN korean))

\* the loop of fill_missing_rates over sorted(dates), last_rate carried along
RECURSIVE FillWalk(_, _, _)
FillWalk(rates, sorted_dates, last_rate) ==
    IF sorted_dates = <<>> THEN rates
    ELSE LET date == Head(sorted_dates)
         IN  IF date \in DOMAIN rates
             THEN FillWalk(rates, Tail(sorted_dates), rates[date])
             ELSE IF Truthy(last_rate)
             THEN FillWalk((date :> last_rate) @@ rates, Tail(sorted_dates), last_rate)
             ELSE FillWalk(rates, Tail(sorted_dates), last_rate)

\* no filling at all
NoFill(rates, dates) == rates

\* a filling from the latest earlier date of the rates, walked or not
FillFromLatest(rates, dates) ==
    LET known(d) == {e \in DOMAIN rates : DateLt(e, d)}
        latest(d) == CHOOSE e \in known(d) : \A x \in known(d) : DateLe(x, e)
        filled == {d \in dates \ DOMAIN rates : known(d) # {}}
    IN  [d \in filled |-> rates[latest(d)]] @@ rates

fill_missing_rates(rates, dates) == FillWalk(rates, SortedDates(dates), None)

\* for i in range(1, 8): the value at the first of date-1 .. date-7 that is a
\* key of the series (found by presence, whatever the value), else `current`
RECURSIVE LookBack(_, _, _, _)
LookBack(series, date, i, current) ==
    IF i > LookBackDays THEN current
    ELSE LET prev == MinusDays(date, i)
         IN  IF prev \in DOMAIN series THEN series[prev]
             ELSE LookBack(series, date, i + 1, current)

\* a resolver without look-back
ResolveExact(intl, date) == Get(intl, date)

\* a resolver that puts a price of 100 where it finds none
ResolveOrDefault(intl, date) ==
    LET found == IF date \in DOMAIN intl THEN intl[date]
                 ELSE LookBack(intl, date, 1, None)
    IN  IF found = None THEN Hundred ELSE found

\* lines 112, 115-120
ResolveIntl(intl, date) ==
    LET intl_price == Get(intl, date)
    IN  IF ~Truthy(intl_price) THEN LookBack(intl, date, 1, intl_price)
        ELSE intl_price

\* lines 113, 122-127
ResolveRate(rates, date) ==
    LET exchange_rate == Get(rates, date)
    IN  IF ~Truthy(exchange_rate) THEN LookBack(rates, date, 1, exchange_rate)
        ELSE exchange_rate

\* lines 133-143
BuildRecord(date, korean_price, intl_price, exchange_rate) ==
    LET intl_price_krw == RatMul(RatDiv(intl_price, TroyOunce), exchange_rate)
        premium == RatMul(RatDiv(RatSub(korean_price, intl_price_krw),
                                 intl_price_krw), Hundred)
    IN  [date                  |-> date,
         koreanPrice           |-> Round2(korean_price),
         internationalPrice    |-> Round2(intl_price),
         internationalPriceKrw |-> Round2(intl_price_krw),
         exchangeRate          |-> Round2(exchange_rate),
         premium               |-> Round2(premium)]

\* lines 110-143: the loop over sorted(all_dates)
RECURSIVE BuildLoop(_, _, _, _)
BuildLoop(sorted_dates, korean, intl, rates) ==
    IF sorted_dates = <<>> THEN <<>>
    ELSE LET date          == Head(sorted_dates)
             korean_price  == Get(korean, date)
             intl_price    == ResolveIntl(intl, date)
             exchange_rate == ResolveRate(rates, date)
             rest          == BuildLoop(Tail(sorted_dates), korean, intl, rates)
         IN  IF ~Truthy(korean_price) \/ ~Truthy(intl_price) \/ ~Truthy(exchange_rate)
             THEN rest
             ELSE <<BuildRecord(date, korean_price, intl_price, exchange_rate)>> \o rest

\* build_history(korean_prices, intl_prices, exchange_rates), given the filled rates
build_history(korean, intl, filled) ==
    BuildLoop(SortedDates(DOMAIN korean), korean, intl, filled)


\* ------------------------------------------------------------------ inputs
\* the calendar window of the backfill series: NDays days from 2024-02-22, so
\* that it spans a leap day, a change of month and a gap longer than 7 days
FirstDay == <<2024, 2, 22>>
Window == DaysFrom(FirstDay, NDays)

\* values that differ from date to date within the window, so that a record
\* shows the date its value came from; eighths are exact in binary floating point
KoreanAt(date) == Rat(8 + date[3], 8)
LbmaAt(date) == Rat(240 + date[3], 8)
RateAt(date) == Rat(8 + date[3], 8)

UpTo(S, n) == {T \in SUBSET S : Cardinality(T) <= n}
\* the series over the dates T with the value of `At`, and 0 on the dates of Z
ValueAt(feed, date) ==
    CASE feed = "krx" -> KoreanAt(date)
      [] feed = "lbma" -> LbmaAt(date)
      [] feed = "fx" -> RateAt(date)

Series(T, Z, feed) == [d \in T |-> IF d \in Z THEN Zero ELSE ValueAt(feed, d)]

\* dates the incremental job can target: each run date and the day before
TargetDates == {TargetDate(now, mode) : now \in NowDates, mode \in Modes}

\* the two concurrent invocations of update_price.main
Procs == {"a", "b"}

\* ------------------------------------------------------------ state machine
NoOp == [kind |-> "none", outcome |-> "none", date |-> None, reading |-> None,
         replaced |-> FALSE, again |-> FALSE]

Idle ==
    /\ pc = [p \in Procs |-> "idle"]
    /\ target_date = [p \in Procs |-> None]
    /\ new_entry = [p \in Procs |-> <<>>]
    /\ history = [p \in Procs |-> <<>>]
    /\ saves = 0
    /\ loadedAt = [p \in Procs |-> 0]
    /\ savedAt = [p \in Procs |-> 0]

\* another writer has written the history
NoUpserts == [fromEmpty |-> FALSE, last |-> <<>>]

NoFetch ==
    /\ fx_start_date = None
    /\ fx_end_date = None
    /\ fx_current_start = None
    /\ requested = <<>>
    /\ fetch_pc = "idle"

NoBatch ==
    /\ batch_files = <<>>
    /\ sorted_data = <<>>
    /\ upserted = [fromEmpty |-> TRUE, last |-> <<>>]
    /\ NoFetch

NoBackfill ==
    /\ korean_prices = <<>>
    /\ lbma_items = <<>>
    /\ intl_prices = <<>>
    /\ exchange_rates = <<>>
    /\ fetched_rates = <<>>
    /\ history_data = <<>>

\* no history.json yet, nothing running
Init ==
    /\ file = <<>>
    /\ lastOp = NoOp
    /\ Idle
    /\ NoBatch
    /\ NoBackfill

\* update_price.main, start to end with no other run in between
Update ==
    \E now \in NowDates, mode \in Modes, korean_price \in KoreanResults,
       international_price \in InternationalResults, exchange_rate \in ExchangeResults :
        LET date == TargetDate(now, mode)
            reading == <<korean_price, international_price, exchange_rate>>
        IN  /\ file' = MainFile(file, date, korean_price, international_price, exchange_rate)
            /\ lastOp' =
                IF MissingRequired(international_price, exchange_rate)
                THEN [NoOp EXCEPT !.kind = "update", !.outcome = "aborted"]
                ELSE [kind     |-> "update",
                      outcome  |-> "saved",
                      date     |-> date,
                      reading  |-> reading,
                      replaced |-> date \in Dates(load_history(file).data),
                      again    |-> /\ lastOp.kind = "update"
                                   /\ lastOp.outcome = "saved"
                                   /\ lastOp.date = date
                                   /\ lastOp.reading = reading]
            /\ UNCHANGED <<pc, target_date, new_entry, history, saves, loadedAt, savedAt>>
            /\ UNCHANGED batchVars
            /\ UNCHANGED fetchVars
            /\ upserted' =
                IF MissingRequired(international_price, exchange_rate)
                   \/ ~upserted.fromEmpty
                THEN upserted
                ELSE [upserted EXCEPT !.last =
                        (date :> NewEntry(date, korean_price, international_price,
                                          exchange_rate)) @@ @]
            \* the memory of an earlier build_history process is gone
            /\ korean_prices' = <<>>
            /\ lbma_items' = <<>>
            /\ intl_prices' = <<>>
            /\ exchange_rates' = <<>>
            /\ fetched_rates' = <<>>
            /\ history_data' = <<>>

\* build_history.main on what load_krx_csv, the LBMA feed and
\* fetch_exchange_rates gave, run on the day `today`
RunBackfill(korean, items, rates, today) ==
    /\ korean_prices' = korean
    /\ lbma_items' = items
    /\ fetched_rates' = rates
    /\ IF DOMAIN korean = {}
       THEN /\ intl_prices' = <<>>
            /\ exchange_rates' = <<>>
            /\ history_data' = <<>>
            /\ file' = file
            /\ lastOp' = [NoOp EXCEPT !.kind = "backfill", !.outcome = "aborted"]
            /\ upserted' = upserted
       ELSE /\ intl_prices' = fetch_lbma_data(items)
            /\ exchange_rates' = fill_missing_rates(rates, DOMAIN korean)
            /\ history_data' = build_history(korean, intl_prices', exchange_rates')
            /\ file' = save_history([lastUpdated |-> today, data |-> history_data'])
            /\ lastOp' = [NoOp EXCEPT !.kind = "backfill", !.outcome = "saved"]
            /\ upserted' = NoUpserts
    /\ UNCHANGED <<pc, target_date, new_entry, history, saves, loadedAt, savedAt>>
    /\ UNCHANGED batchVars
    /\ UNCHANGED fetchVars

\* a backfill between incremental runs: rows on the dates the incremental job
\* targets, a dense LBMA feed, the FX service with every date or with none
Backfill ==
    \E A \in SUBSET TargetDates, F \in {Window, {}}, today \in NowDates :
        LET korean == Series(A, {}, "krx")
        IN  RunBackfill(korean, Series(Window, {}, "lbma"),
                        MainRates(korean, Series(F, {}, "fx")), today)

Next == Update \/ Backfill

Spec == Init /\ [][Next]_vars

\* ---- the backfill on its own, over wider families of input series
\* the input series by their key sets: the rows A of the CSV (with price 0 on
\* ZA), the items I of the LBMA feed (with an empty value, 0, on ZI), the
\* dates F the FX service has rates of; main has fetched the rates
InputSeries(A, ZA, I, ZI, F) ==
    /\ korean_prices = Series(A, ZA, "krx")
    /\ lbma_items = Series(I, ZI, "lbma")
    /\ fetched_rates = MainRates(korean_prices, Series(F, {}, "fx"))

InitBackfill ==
    /\ file = <<>>
    /\ lastOp = NoOp
    /\ Idle
    /\ NoBatch
    \* sparse FX under a dense LBMA feed
    /\ \/ \E A \in UpTo(Window, MaxAnchors) \ {{}}, F \in UpTo(Window, MaxEntries) :
            InputSeries(A, {}, Window, {}, F)
       \* a sparse LBMA feed under dense FX
       \/ \E A \in UpTo(Window, MaxAnchors) \ {{}}, I \in UpTo(Window, MaxEntries) :
            InputSeries(A, {}, I, {}, Window)
       \* CSV rows with a price of 0, and no rows at all
       \/ \E A \in UpTo(Window, MaxAnchors) : \E ZA \in SUBSET A :
            InputSeries(A, ZA, Window, {}, Window)
       \* one row, both feeds sparse, LBMA items with an empty value
       \/ \E A \in UpTo(Window, 1) \ {{}}, I, F \in UpTo(Window, 1) : \E ZI \in SUBSET I :
            InputSeries(A, {}, I, ZI, F)
    /\ intl_prices = <<>>
    /\ exchange_rates = fetched_rates
    /\ history_data = <<>>

Build ==
    /\ lastOp.kind = "none"
    /\ \E today \in NowDates :
        RunBackfill(korean_prices, lbma_items, fetched_rates, today)

NextBackfill == Build

SpecBackfill == InitBackfill /\ [][NextBackfill]_vars

\* ---- two invocations of update_price.main interleaved at their file accesses
\* lines 129-187: fetch, and stop if a required value is missing
Start(p) ==
    /\ pc[p] \in {"idle", "done"}
    /\ saves < MaxSaves
    /\ \E now \in NowDates, mode \in Modes, korean_price \in KoreanResults \ {Zero},
          international_price \in InternationalResults \ {Zero},
          exchange_rate \in ExchangeResults :
        LET date == TargetDate(now, mode)
        IN  IF MissingRequired(international_price, exchange_rate)
            THEN /\ pc' = [pc EXCEPT ![p] = "idle"]
                 /\ target_date' = [target_date EXCEPT ![p] = None]
                 /\ new_entry' = [new_entry EXCEPT ![p] = <<>>]
            ELSE /\ pc' = [pc EXCEPT ![p] = "fetched"]
                 /\ target_date' = [target_date EXCEPT ![p] = date]
                 /\ new_entry' = [new_entry EXCEPT ![p] =
                        <<NewEntry(date, korean_price, international_price, exchange_rate)>>]
    /\ history' = [history EXCEPT ![p] = <<>>]
    /\ loadedAt' = [loadedAt EXCEPT ![p] = 0]
    /\ savedAt' = [savedAt EXCEPT ![p] = 0]
    /\ UNCHANGED <<file, lastOp, saves, korean_prices, lbma_items, intl_prices,
                   exchange_rates, fetched_rates, history_data>>
    /\ UNCHANGED <<batchVars, upserted>>
    /\ UNCHANGED fetchVars

\* line 190
Load(p) ==
    /\ pc[p] = "fetched"
    /\ pc' = [pc EXCEPT ![p] = "loaded"]
    /\ history' = [history EXCEPT ![p] = <<load_history(file)>>]
    /\ loadedAt' = [loadedAt EXCEPT ![p] = saves]
    /\ UNCHANGED <<file, lastOp, target_date, new_entry, saves, savedAt, korean_prices,
                   lbma_items, intl_prices, exchange_rates, fetched_rates, history_data>>
    /\ UNCHANGED <<batchVars, upserted>>
    /\ UNCHANGED fetchVars

\* lines 192-208: the in-memory upsert and save_history
Save(p) ==
    /\ pc[p] = "loaded"
    /\ pc' = [pc EXCEPT ![p] = "done"]
    /\ file' = Written(file, history[p][1], new_entry[p][1])
    /\ history' = [history EXCEPT ![p] = file']
    /\ saves' = saves + 1
    /\ savedAt' = [savedAt EXCEPT ![p] = saves']
    /\ UNCHANGED <<lastOp, target_date, new_entry, loadedAt, korean_prices, lbma_items,
                   intl_prices, exchange_rates, fetched_rates, history_data>>
    /\ UNCHANGED <<batchVars, upserted>>
    /\ UNCHANGED fetchVars

NextConc == \E p \in Procs : Start(p) \/ Load(p) \/ Save(p)

SpecConc == Init /\ [][NextConc]_vars


\* ------------------------------------- batch sources: parse_woori_pdf.py and
\* load_krx_csv of build_history.py
\* the file names of the batch directory, in ascending order
FileNames == <<"gold-2023", "gold-2024">>

\* the dates of the rows
BatchDates == {FirstDay, NextDay(FirstDay)}

\* a row: its date cell and its price cell, None for a cell that is no number;
\* the other cells of a PDF row hold the values of the date
BatchRows == [date : BatchDates, price : {None, Zero, Rat(11, 8), Rat(13, 8)}]

\* sorted(f for f in os.listdir(DIR)): the names listed, in ascending order
SortedFiles(listed) == SelectSeq(FileNames, LAMBDA f : f \in listed)

\* parse_woori_pdf lines 78-90: the record of a row
PdfRecord(date, korean_price, intl_price_usd, exchange_rate) ==
    LET intl_price_krw == RatMul(RatDiv(intl_price_usd, TroyOunce), exchange_rate)
        premium == IF intl_price_krw[1] > 0
                   THEN RatMul(RatDiv(RatSub(korean_price, intl_price_krw),
                                      intl_price_krw), Hundred)
                   ELSE Zero
    IN  [date                  |-> date,
         koreanPrice           |-> Round2(korean_price),
         internationalPrice    |-> Round2(intl_price_usd),
         internationalPriceKrw |-> Round2(intl_price_krw),
         exchangeRate          |-> Round2(exchange_rate),
         premium               |-> Round2(premium)]

\* extract_data_from_pdf on the rows of one file: a record per row whose three
\* numbers are there and not 0
RECURSIVE extract_data_from_pdf(_)
extract_data_from_pdf(rows) ==
    IF rows = <<>> THEN <<>>
    ELSE LET row          == Head(rows)
             korean_price == row.price
             intl_price   == LbmaAt(row.date)
             rate         == RateAt(row.date)
             rest         == extract_data_from_pdf(Tail(rows))
         IN  IF Truthy(korean_price) /\ Truthy(intl_price) /\ Truthy(rate)
             THEN <<PdfRecord(row.date, korean_price, intl_price, rate)>> \o rest
             ELSE rest

\* parse_woori_pdf.main lines 106-109: all_data over the sorted files
RECURSIVE ExtendAll(_, _)
ExtendAll(files, names) ==
    IF names = <<>> THEN <<>>
    ELSE extract_data_from_pdf(files[Head(names)]) \o ExtendAll(files, Tail(names))

\* a dict that keeps the item a date got first (dict.setdefault)
DictSetDefault(unique_data, item) ==
    IF item.date \in Dates(unique_data) THEN unique_data
    ELSE Append(unique_data, item)

\* unique_data[item["date"]] = item, the dict as the list of its values in
\* insertion order: a date already there keeps its place and takes the item
DictSet(unique_data, item) ==
    LET i == ExistingIndex(unique_data, item.date)
    IN  IF i # 0 THEN [unique_data EXCEPT ![i] = item] ELSE Append(unique_data, item)

\* lines 113-115
RECURSIVE Unique(_, _)
Unique(all_data, unique_data) ==
    IF all_data = <<>> THEN unique_data
    ELSE Unique(Tail(all_data), DictSet(unique_data, Head(all_data)))

\* parse_woori_pdf.main lines 100-118: sorted_data
ParseSorted(files) ==
    SortByDate(Unique(ExtendAll(files, SortedFiles(DOMAIN files)), <<>>))

\* load_krx_csv on the rows of one file: korean_prices[date_str] = price_per_g
\* for every row whose price is a number
RECURSIVE CsvRows(_, _)
CsvRows(rows, prices) ==
    IF rows = <<>> THEN prices
    ELSE LET row == Head(rows)
         IN  IF row.price = None THEN CsvRows(Tail(rows), prices)
             ELSE CsvRows(Tail(rows), (row.date :> row.price) @@ prices)

RECURSIVE CsvFiles(_, _, _)
CsvFiles(files, names, prices) ==
    IF names = <<>> THEN prices
    ELSE CsvFiles(files, Tail(names), CsvRows(files[Head(names)], prices))

load_krx_csv(files) == CsvFiles(files, SortedFiles(DOMAIN files), <<>>)

\* the rows of the two files, MaxRows of them at most
InitBatch ==
    /\ file = <<>>
    /\ lastOp = NoOp
    /\ Idle
    /\ NoBackfill
    /\ sorted_data = <<>>
    /\ upserted = [fromEmpty |-> TRUE, last |-> <<>>]
    /\ NoFetch
    /\ \E m \in 0 .. MaxRows, n \in 0 .. MaxRows :
        /\ m + n <= MaxRows
        /\ \E first \in [1 .. m -> BatchRows], second \in [1 .. n -> BatchRows] :
            batch_files = (FileNames[1] :> first) @@ (FileNames[2] :> second)

\* parse_woori_pdf.main on the files, run on the day `today`
ParsePdf ==
    /\ lastOp.kind = "none"
    /\ sorted_data' = ParseSorted(batch_files)
    /\ \E today \in NowDates :
        file' = save_history([lastUpdated |-> today, data |-> sorted_data'])
    /\ lastOp' = [NoOp EXCEPT !.kind = "parse", !.outcome = "saved"]
    /\ UNCHANGED <<pc, target_date, new_entry, history, saves, loadedAt, savedAt,
                   korean_prices, lbma_items, intl_prices, exchange_rates,
                   fetched_rates, history_data, batch_files>>
    /\ upserted' = NoUpserts
    /\ UNCHANGED fetchVars

\* load_krx_csv on the files
LoadCsv ==
    /\ lastOp.kind = "none"
    /\ korean_prices' = load_krx_csv(batch_files)
    /\ lastOp' = [NoOp EXCEPT !.kind = "csv", !.outcome = "loaded"]
    /\ UNCHANGED <<file, pc, target_date, new_entry, history, saves, loadedAt, savedAt,
                   lbma_items, intl_prices, exchange_rates, fetched_rates,
                   history_data, batch_files, sorted_data, upserted>>
    /\ UNCHANGED fetchVars

NextBatch == ParsePdf \/ LoadCsv

SpecBatch == InitBatch /\ [][NextBatch]_vars


\* ------------------------ the chunking loop of fetch_exchange_rates, step by step
\* the end dates tried for a start date: the date itself and the day after,
\* and the days around the ends of its first and second 365-day chunk
EndDates(date) ==
    LET first  == PlusChunk(date)
        second == PlusChunk(NextDay(first))
    IN  {date, NextDay(date),
         PrevDay(first), first, NextDay(first), NextDay(NextDay(first)),
         PrevDay(second), second, NextDay(second), NextDay(NextDay(second))}

\* lines 67-69: fetch_exchange_rates(start_date, end_date) is entered with the
\* first and the last date of the CSV
InitFetch ==
    /\ file = <<>>
    /\ lastOp = NoOp
    /\ Idle
    /\ NoBackfill
    /\ batch_files = <<>>
    /\ sorted_data = <<>>
    /\ upserted = [fromEmpty |-> TRUE, last |-> <<>>]
    /\ fx_start_date \in Window
    /\ fx_end_date \in EndDates(fx_start_date)
    /\ fx_current_start = fx_start_date
    /\ requested = <<>>
    /\ fetch_pc = "loop"

\* lines 71-87: one turn of the loop; the request may fail, current_start
\* moves on all the same
RequestChunk ==
    /\ fetch_pc = "loop"
    /\ DateLt(fx_current_start, fx_end_date)
    /\ LET plus == PlusChunk(fx_current_start)
           current_end == IF DateLt(fx_end_date, plus) THEN fx_end_date ELSE plus
       IN  /\ requested' = Append(requested, <<fx_current_start, current_end>>)
           /\ fx_current_start' = NextDay(current_end)
    /\ UNCHANGED <<file, lastOp, pc, target_date, new_entry, history, saves, loadedAt,
                   savedAt, korean_prices, lbma_items, intl_prices, exchange_rates,
                   fetched_rates, history_data, batch_files, sorted_data, upserted,
                   fx_start_date, fx_end_date, fetch_pc>>

\* lines 71, 88-89: the loop condition fails and the function returns
FetchReturn ==
    /\ fetch_pc = "loop"
    /\ ~DateLt(fx_current_start, fx_end_date)
    /\ fetch_pc' = "done"
    /\ UNCHANGED <<file, lastOp, pc, target_date, new_entry, history, saves, loadedAt,
                   savedAt, korean_prices, lbma_items, intl_prices, exchange_rates,
                   fetched_rates, history_data, batch_files, sorted_data, upserted,
                   fx_start_date, fx_end_date, fx_current_start, requested>>

NextFetch == RequestChunk \/ FetchReturn

SpecFetch == InitFetch /\ [][NextFetch]_vars /\ WF_vars(NextFetch)


\* ================================================================== claims
StrictlyIncreasing(data) ==
    \A i \in 1 .. Len(data) - 1 : DateLt(data[i].date, data[i + 1].date)

Persisted == load_history(file).data

UpdateSaved == lastOp.kind = "update" /\ lastOp.outcome = "saved"

RecordAt(data, date) == data[CHOOSE i \in 1 .. Len(data) : data[i].date = date]

\* C1: every history the backfill returns and every history an incremental
\* run or a backfill persists has strictly increasing dates, so no date twice.
C1_SortedUnique ==
    /\ StrictlyIncreasing(Persisted)
    /\ StrictlyIncreasing(history_data)

\* an incremental run has put a new date in front of the records a backfill
\* wrote or an earlier run left
C1_Witness ==
    /\ UpdateSaved
    /\ ~lastOp.replaced
    /\ Len(Persisted) >= 2
    /\ Persisted[1].date = lastOp.date

\* C2: from every reachable persisted history and for every reading, the
\* incremental run followed by the same run again leaves the file (data and
\* lastUpdated) that the first run left.
C2_Idempotent ==
    \A date \in TargetDates, k \in KoreanResults, p \in InternationalResults,
       r \in ExchangeResults :
        LET once == MainFile(file, date, k, p, r)
        IN  MainFile(once, date, k, p, r) = once

\* the same reading has just been upserted twice in a row, next to another record
C2_Witness ==
    /\ UpdateSaved
    /\ lastOp.again
    /\ Len(Persisted) >= 2

\* C3: an incremental run for a date that already has a record leaves exactly
\* one record for that date, equal to the new entry, and as many records as before.
C3_ReplaceOnSameDate ==
    [][(lastOp'.kind = "update" /\ lastOp'.outcome = "saved" /\ lastOp'.replaced) =>
        LET old   == load_history(file).data
            new   == load_history(file').data
            date  == lastOp'.date
            entry == NewEntry(date, lastOp'.reading[1], lastOp'.reading[2],
                              lastOp'.reading[3])
        IN  /\ Cardinality({i \in 1 .. Len(new) : new[i].date = date}) = 1
            /\ RecordAt(new, date) = entry
            /\ Len(new) = Len(old)]_vars

\* a run has replaced the record of its date by a different reading's entry
C3_Witness ==
    /\ UpdateSaved
    /\ lastOp.replaced
    /\ ~lastOp.again
    /\ Len(Persisted) >= 2

\* C4: an incremental run that lacks the international price or the exchange
\* rate leaves history.json as it was: not created, not rewritten.
C4_MissingInputLeavesFile ==
    [][(lastOp'.kind = "update" /\ lastOp'.outcome = "aborted") => file' = file]_vars

\* a run has stopped for a missing input over a history that holds records
C4_Witness ==
    /\ lastOp.kind = "update"
    /\ lastOp.outcome = "aborted"
    /\ Len(Persisted) >= 1


\* ---- the backfill's claims
Built == lastOp.kind = "backfill" /\ lastOp.outcome = "saved"

Anchors == DOMAIN korean_prices

\* the dates d-7 .. d
LastWeek(date) == {MinusDays(date, i) : i \in 0 .. LookBackDays}

HasRecord(date) == date \in Dates(history_data)

\* the bounded resolver of a series at a date: the value at the latest key
\* among d-7 .. d, None when there is none
Bounded(series, date) ==
    LET near == LastWeek(date) \cap DOMAIN series
    IN  IF near = {} THEN None ELSE series[MaxDate(near)]

\* the FX value the reconciler works with at an anchor date: the value at the
\* date; else the value of the latest earlier anchor date that has one, however
\* far back; else the bounded resolver's
CarriedRate(date) ==
    LET earlier == {a \in Anchors \cap DOMAIN fetched_rates : DateLt(a, date)}
    IN  IF date \in DOMAIN fetched_rates THEN fetched_rates[date]
        ELSE IF earlier # {} THEN fetched_rates[MaxDate(earlier)]
        ELSE Bounded(fetched_rates, date)

\* C5 as stated: an anchor date with no FX entry in [d-7, d] produces no record.
C5_SkipOnMissingRate ==
    Built => \A d \in Anchors :
        LastWeek(d) \cap DOMAIN fetched_rates = {} => ~HasRecord(d)

\* C5 as amended: the exchange rate of an anchor date d is the FX value at d,
\* else the value carried forward, without look-back limit, from the latest
\* earlier anchor date that has an FX entry, else the value at the nearest of
\* d-1 .. d-7 that has one; d produces a record exactly when that rate, the
\* bounded international price and a non-zero local price exist, and the
\* record holds that rate.
C5_SkipOnMissingCarriedRate ==
    Built => \A d \in Anchors :
        /\ HasRecord(d) <=> /\ Truthy(korean_prices[d])
                            /\ Bounded(intl_prices, d) # None
                            /\ CarriedRate(d) # None
        /\ HasRecord(d) =>
            RecordAt(history_data, d).exchangeRate = Round2(CarriedRate(d))

\* an anchor date has a record on a rate carried over more than 7 days
C5_Witness ==
    /\ Built
    /\ \E d \in Anchors :
        /\ HasRecord(d)
        /\ LastWeek(d) \cap DOMAIN fetched_rates = {}
        /\ RecordAt(history_data, d).exchangeRate = Round2(CarriedRate(d))

\* C6: the international price of an anchor date d is the series' value at d,
\* else the value at the nearest of d-1 .. d-7 that has an entry; with no entry
\* in [d-7, d] no record is emitted for d; an emitted record holds that price.
C6_GapFillWithinWindow ==
    Built => \A d \in Anchors :
        /\ Bounded(intl_prices, d) = None => ~HasRecord(d)
        /\ HasRecord(d) =>
            /\ RecordAt(history_data, d).internationalPrice
                    = Round2(Bounded(intl_prices, d))
            /\ d \in DOMAIN intl_prices =>
                RecordAt(history_data, d).internationalPrice = Round2(intl_prices[d])
        /\ (Bounded(intl_prices, d) # None /\ Truthy(korean_prices[d])
                /\ CarriedRate(d) # None) => HasRecord(d)

\* an anchor date without an entry took the nearer of two earlier entries,
\* and an anchor date with no entry in its window was skipped
C6_Witness ==
    /\ Built
    /\ \E d \in Anchors :
        /\ HasRecord(d)
        /\ d \notin DOMAIN intl_prices
        /\ Cardinality(LastWeek(d) \cap DOMAIN intl_prices) = 2
    /\ \E d \in Anchors :
        /\ ~HasRecord(d)
        /\ Bounded(intl_prices, d) = None
        /\ DOMAIN intl_prices # {}

\* C10: fill_missing_rates gives every anchor date without a rate the rate of
\* the latest earlier anchor date that has one, however far back; it leaves
\* every date that has a rate as it is, and an anchor date before all of them
\* without a value; it touches no other date.
C10_FillForward ==
    Built =>
        /\ \A d \in DOMAIN fetched_rates :
            d \in DOMAIN exchange_rates /\ exchange_rates[d] = fetched_rates[d]
        /\ DOMAIN exchange_rates \subseteq DOMAIN fetched_rates \cup Anchors
        /\ \A d \in Anchors \ DOMAIN fetched_rates :
            LET earlier == {a \in Anchors \cap DOMAIN fetched_rates : DateLt(a, d)}
            IN  IF earlier = {} THEN d \notin DOMAIN exchange_rates
                ELSE /\ d \in DOMAIN exchange_rates
                     /\ exchange_rates[d] = fetched_rates[MaxDate(earlier)]

\* a rate was carried over more than 7 days to an anchor date from an earlier
\* anchor date, which kept its own
C10_Witness ==
    /\ Built
    /\ \E d \in Anchors \ DOMAIN fetched_rates :
        /\ d \in DOMAIN exchange_rates
        /\ LastWeek(d) \cap DOMAIN fetched_rates = {}
        /\ \E a \in Anchors \cap DOMAIN fetched_rates :
            exchange_rates[d] = fetched_rates[a] /\ exchange_rates[a] = fetched_rates[a]


\* ---- derivation
\* the premium formula of the derivation on unrounded values; the caller
\* keeps `converted` off zero
DerivedPremium(local, converted) ==
    RatMul(RatDiv(RatSub(local, converted), converted), Hundred)

\* C7: no record is emitted or upserted when the local price, the
\* international price or the exchange rate is zero or negative, or the
\* converted international price is zero: neither path writes a record with an
\* international price of 0, a premium of 0 put in for an undefined one, or a
\* zero-filled price.
C7_NoRecordOnUndefined ==
    /\ UpdateSaved =>
        /\ lastOp.reading[1] # Zero
        /\ lastOp.reading[2][1] > 0
        /\ lastOp.reading[3][1] > 0
        /\ ConvertKrw(lastOp.reading[2], lastOp.reading[3])[1] # 0
    /\ \A i \in 1 .. Len(Persisted) :
        /\ Persisted[i].koreanPrice > 0
        /\ Persisted[i].internationalPrice > 0
        /\ Persisted[i].internationalPriceKrw > 0
        /\ Persisted[i].exchangeRate > 0
    /\ Built => \A d \in Anchors :
        HasRecord(d) => /\ korean_prices[d][1] > 0
                        /\ RecordAt(history_data, d).internationalPrice > 0
                        /\ RecordAt(history_data, d).exchangeRate > 0

\* C8: every record emitted by the backfill or upserted by an incremental run
\* has internationalPriceKrw = round2((internationalPrice / 31.1035) *
\* exchangeRate) and premium = round2(((local - converted) / converted) * 100)
\* on the unrounded values, the estimated local price included.
C8_DerivedFields ==
    /\ UpdateSaved =>
        LET converted == ConvertKrw(lastOp.reading[2], lastOp.reading[3])
            local == KoreanOrEstimate(lastOp.reading[1], lastOp.reading[2],
                                      lastOp.reading[3])
            rec == RecordAt(Persisted, lastOp.date)
        IN  /\ rec.internationalPriceKrw = Round2(converted)
            /\ converted[1] # 0
            /\ rec.premium = Round2(DerivedPremium(local, converted))
    /\ Built => \A d \in Anchors :
        HasRecord(d) =>
            LET converted == ConvertKrw(Bounded(intl_prices, d), CarriedRate(d))
                rec == RecordAt(history_data, d)
            IN  /\ rec.internationalPriceKrw = Round2(converted)
                /\ converted[1] # 0
                /\ rec.premium = Round2(DerivedPremium(korean_prices[d], converted))

\* ---- concurrency
\* C9: two incremental runs for different dates interleave so that one loads
\* the history before the other saves and saves after it: the save of the
\* first then drops the record of the second, which was in the file, and the
\* file holds the record of the first only.
C9_LostUpdate ==
    [][\A p \in Procs : \A q \in Procs \ {p} :
        ( /\ pc[p] = "loaded" /\ pc'[p] = "done"
          /\ pc[q] = "done"
          /\ loadedAt[p] < savedAt[q]
          /\ target_date[q] # target_date[p]
          /\ target_date[q] \notin Dates(history[p][1].data) )
        => /\ target_date[q] \in Dates(load_history(file).data)
           /\ target_date[q] \notin Dates(load_history(file').data)
           /\ target_date[p] \in Dates(load_history(file').data)]_vars

\* both runs are done, the one that loaded early saved last, and the file has
\* its record without the other's
C9_Witness ==
    \E p \in Procs : \E q \in Procs \ {p} :
        /\ pc[p] = "done" /\ pc[q] = "done"
        /\ savedAt[p] = saves
        /\ 0 < savedAt[q] /\ loadedAt[p] < savedAt[q]
        /\ target_date[q] # target_date[p]
        /\ target_date[q] \notin Dates(Persisted)
        /\ target_date[p] \in Dates(Persisted)


\* ---- empty input series
\* C11: with a wholly empty international-price series or a wholly empty
\* exchange-rate series the backfill runs to its end and returns no record,
\* whatever the anchor series: every anchor date is skipped.
C11_EmptySeriesEmptyResult ==
    (Built /\ (intl_prices = <<>> \/ fetched_rates = <<>>)) =>
        /\ history_data = <<>>
        /\ load_history(file).data = <<>>
        /\ \A d \in Anchors : ~HasRecord(d)

\* a backfill over anchor dates with prices ran on an empty international
\* series under rates for every anchor date, and returned nothing
C11_Witness ==
    /\ Built
    /\ intl_prices = <<>>
    /\ \E d \in Anchors : Truthy(korean_prices[d]) /\ d \in DOMAIN fetched_rates
    /\ history_data = <<>>


\* ---- batch deduplication
\* the places of the rows in source order: file by file name, row by row
Places ==
    UNION {{<<f, i>> : i \in 1 .. Len(batch_files[FileNames[f]])} :
           f \in 1 .. Len(FileNames)}

RowAt(place) == batch_files[FileNames[place[1]]][place[2]]

\* the latest in source order of a non-empty set of places
LastPlace(S) ==
    CHOOSE p \in S : \A q \in S :
        q[1] < p[1] \/ (q[1] = p[1] /\ q[2] <= p[2])

\* the places of the rows that give a record of the date: to the PDF parser,
\* to the CSV loader
PdfPlaces(date) == {p \in Places : RowAt(p).date = date /\ Truthy(RowAt(p).price)}

CsvPlaces(date) == {p \in Places : RowAt(p).date = date /\ RowAt(p).price # None}

\* C12: the reconciled batch has one record for every date that has a record
\* in the source and no other, the record of a date is the last one of the
\* date in source order (files by name, rows in document order), and the list
\* parse_woori_pdf.main saves is in ascending order of date.
C12_BatchKeepsLast ==
    /\ lastOp.kind = "parse" =>
        /\ StrictlyIncreasing(sorted_data)
        /\ Dates(sorted_data) = {d \in BatchDates : PdfPlaces(d) # {}}
        /\ \A d \in Dates(sorted_data) :
            RecordAt(sorted_data, d).koreanPrice
                = Round2(RowAt(LastPlace(PdfPlaces(d))).price)
        /\ Persisted = sorted_data
    /\ lastOp.kind = "csv" =>
        /\ DOMAIN korean_prices = {d \in BatchDates : CsvPlaces(d) # {}}
        /\ \A d \in DOMAIN korean_prices :
            korean_prices[d] = RowAt(LastPlace(CsvPlaces(d))).price

\* the parser ran on files where a date has records with different prices in
\* both files and the later date comes first
C12_Witness ==
    /\ lastOp.kind = "parse"
    /\ Len(sorted_data) = 2
    /\ \E p \in Places : \E q \in Places :
        /\ p[1] < q[1]
        /\ RowAt(p).date = RowAt(q).date
        /\ Truthy(RowAt(p).price) /\ Truthy(RowAt(q).price)
        /\ RowAt(p).price # RowAt(q).price
    /\ DateLt(RowAt(<<2, 1>>).date, RowAt(<<1, 1>>).date)


C14_OnlyTargetDateChanges ==
    /\ [][(lastOp'.kind = "update" /\ lastOp'.outcome = "saved") =>
            LET old == load_history(file).data
                new == load_history(file').data
                d   == lastOp'.date
            IN  /\ \A i \in 1 .. Len(old) :
                    old[i].date # d =>
                        \E j \in 1 .. Len(new) : new[j] = old[i]
                /\ Dates(new) = Dates(old) \cup {d}
                /\ Len(new) = Len(old) + (IF d \in Dates(old) THEN 0 ELSE 1)]_vars
    /\ [](upserted.fromEmpty =>
            /\ Dates(Persisted) = DOMAIN upserted.last
            /\ \A d \in DOMAIN upserted.last :
                RecordAt(Persisted, d) = upserted.last[d]
            /\ Len(Persisted) = Cardinality(DOMAIN upserted.last))

\* runs from the empty history have upserted two dates, the last of them
\* replacing the record of its date with another reading
C14_Witness ==
    /\ UpdateSaved
    /\ upserted.fromEmpty
    /\ Cardinality(DOMAIN upserted.last) = 2
    /\ lastOp.replaced
    /\ ~lastOp.again


\* ---- the range fetch
\* the chunks requested cover every date from start_date to end_date: the
\* first starts by start_date, each later one starts by the day after the one
\* before it ends, and the last ends on end_date or later
ChunksCoverRange ==
    /\ requested # <<>>
    /\ DateLe(requested[1][1], fx_start_date)
    /\ \A i \in 1 .. Len(requested) - 1 :
        DateLe(requested[i + 1][1], NextDay(requested[i][2]))
    /\ DateLe(fx_end_date, requested[Len(requested)][2])

\* C15: for start_date <= end_date the chunking loop of fetch_exchange_rates
\* ends, and every date from start_date to end_date lies in a requested
\* chunk, also when start_date = end_date and when end_date is the day after
\* the end of a 365-day chunk.
C15_FetchCoversRange ==
    /\ <>(fetch_pc = "done")
    /\ [](fetch_pc = "done" => ChunksCoverRange)

=============================================================================
